---- MODULE Spec2Model ----
(***************************************************************************)
(* A model of the range_date crate: the DatePeriod value type of           *)
(* src/src/range_type.rs, its constructors, text encoding, date            *)
(* conversion, stepping, decomposition and range enumeration, and the      *)
(* leap_year function of src/src/lib.rs.                                   *)
(*                                                                         *)
(* Number representation.  The fields of DatePeriod are u32.  Integers    *)
(* here are 32-bit signed, so a u32 is held as the integer that           *)
(* has the same 32 bits read as two's complement: the u32 values           *)
(* 0 .. 2147483647 are held as themselves and the u32 values               *)
(* 2147483648 .. 4294967295 are held as -2147483648 .. -1.  Under this     *)
(* representation the casts `as i32` and `as u32` keep the held integer    *)
(* (they keep the bits), unsigned comparison and unsigned +1 / -1 are the  *)
(* operators U32Lt, U32Le, U32AddOne, U32SubOne below, and the decimal     *)
(* text of a u32 is U32ToString.                                           *)
(***************************************************************************)
EXTENDS Integers, Sequences, FiniteSets, TLC

VARIABLES
    overflow_checks,  \* the build: TRUE when integer overflow panics (debug profile)
    cur,              \* the DatePeriod the client holds, NoPeriod before the first one
    text,             \* the String last produced by Display / serialize
    last,             \* the last call: its name, its arguments and its result
    steps             \* the number of calls made so far

vars == <<overflow_checks, cur, text, last, steps>>

----------------------------------------------------------------------------
(* u32 and i32 arithmetic                                                  *)

I32_MAX == 2147483647
I32_MIN == -I32_MAX - 1
\* The bits of u32::MAX (4294967295), read as two's complement.
U32_MAX == -1

\* `u as i32`: the same bits.
AsI32(u) == u
\* `i as u32`: the same bits.
AsU32(i) == i

\* a < b on u32.
U32Lt(a, b) == IF (a >= 0) = (b >= 0) THEN a < b ELSE a >= 0
\* a <= b on u32.
U32Le(a, b) == a = b \/ U32Lt(a, b)

\* a + 1 on u32 overflows.
U32AddOverflows(a) == a = U32_MAX
\* a + 1 on u32, wrapping (what a build without overflow checks computes).
U32AddOne(a) == IF a = I32_MAX THEN I32_MIN ELSE a + 1
\* a - 1 on u32, for a > 0.
U32SubOne(a) == IF a = I32_MIN THEN I32_MAX ELSE a - 1

----------------------------------------------------------------------------
(* leap_year                                                               *)

\* Rust's `%` on i32 with a positive divisor: the remainder of the division
\* that truncates toward zero, so it has the sign of the dividend.
rem(a, n) ==
    LET m == a % n
    IN  IF a < 0 /\ m # 0 THEN m - n ELSE m

\* The Julian rule: every fourth year, no century exception.
leap_year_every_fourth(y) == rem(y, 4) = 0

\* leap_year
leap_year(y) == (rem(y, 4) = 0 /\ rem(y, 100) # 0) \/ (rem(y, 400) = 0)

----------------------------------------------------------------------------
(* DatePeriod values and results                                           *)

\* enum DatePeriod: the variant and its fields (Year has no index: idx = 0).
Period(t, y, i) == [tag |-> t, year |-> y, idx |-> i]
NoPeriod == Period("None", 0, 0)

Tags == {"Year", "Quarter", "Month", "Daily"}

\* chrono::NaiveDate: a date of the proleptic Gregorian calendar.
Date(y, m, d) == [year |-> y, month |-> m, day |-> d]
NoDate == Date(0, 0, 0)

\* struct RangeDate { year: i32, range_type, range_index: u32 }; range_type
\* is the kind of period alone, held as its tag.
RangeDate(y, t, i) == [year |-> y, range_type |-> t, range_index |-> i]
NoRangeDate == RangeDate(0, "None", 0)

\* Results: Ok(value), Err(message), or a panic that aborts the caller.
\* A DatePeriod result is in val, a Vec<DatePeriod> in items, a bool in flag,
\* a NaiveDate in date and a RangeDate in rd.
Result(k, p, msg, s, b, d) ==
    [kind |-> k, val |-> p, err |-> msg, items |-> s, flag |-> b, date |-> d,
     rd |-> NoRangeDate]
OkRangeDate(r) == [Result("ok", NoPeriod, "", <<>>, FALSE, NoDate) EXCEPT !.rd = r]
Ok(p) == Result("ok", p, "", <<>>, FALSE, NoDate)
OkVec(s) == Result("ok", NoPeriod, "", s, FALSE, NoDate)
OkBool(b) == Result("ok", NoPeriod, "", <<>>, b, NoDate)
OkDate(d) == Result("ok", NoPeriod, "", <<>>, FALSE, d)
Err(msg) == Result("err", NoPeriod, msg, <<>>, FALSE, NoDate)
Panic(msg) == Result("panic", NoPeriod, msg, <<>>, FALSE, NoDate)
\* The call never returns: the loop runs until memory is exhausted.
Hang(msg) == Result("hang", NoPeriod, msg, <<>>, FALSE, NoDate)

\* `if leap_year(year as i32) { 366 } else { 365 }`, as daily and succ compute it.
max_days(y) == IF leap_year(AsI32(y)) THEN 366 ELSE 365

\* DatePeriod::year
year(y) == Period("Year", y, 0)

\* DatePeriod::quarter
quarter(y, q) ==
    IF ~(U32Le(1, q) /\ U32Le(q, 4))
    THEN Err("Quarter must be between 1 and 4")
    ELSE Ok(Period("Quarter", y, q))

\* DatePeriod::month
month(y, m) ==
    IF ~(U32Le(1, m) /\ U32Le(m, 12))
    THEN Err("Month must be between 1 and 12")
    ELSE Ok(Period("Month", y, m))

\* daily without the leap-year test: day 366 passes in every year.
daily_always_366(y, d) ==
    IF d = 0 THEN Err("Day must be greater than 0")
    ELSE IF U32Lt(366, d) THEN Err("Day is invalid for year")
    ELSE Ok(Period("Daily", y, d))

\* DatePeriod::daily
daily(y, d) ==
    IF d = 0 THEN Err("Day must be greater than 0")
    ELSE IF U32Lt(max_days(y), d) THEN Err("Day is invalid for year")
    ELSE Ok(Period("Daily", y, d))

\* The ranges the variants document (lines 10-15): quarter 1-4, month 1-12,
\* day 1-365, or 1-366 in a leap year.
Valid(p) ==
    /\ p.tag \in Tags
    /\ p.tag = "Year" => p.idx = 0
    /\ p.tag = "Quarter" => p.idx \in 1..4
    /\ p.tag = "Month" => p.idx \in 1..12
    /\ p.tag = "Daily" => p.idx \in 1..(IF leap_year(AsI32(p.year)) THEN 366 ELSE 365)

----------------------------------------------------------------------------
(* RangeDate                                                               *)

\* RangeDate::new without the leap-yr test of its Daily arm.
range_date_new_any_366(yr, range_type, range_index) ==
    IF range_index = 0 THEN Err("range_index must be greater than 0")
    ELSE IF range_type = "Quarter" /\ (U32Lt(range_index, 1) \/ U32Lt(4, range_index))
         THEN Err("For Quarter, range_index must be between 1 and 4")
    ELSE IF range_type = "Month" /\ (U32Lt(range_index, 1) \/ U32Lt(12, range_index))
         THEN Err("For Month, range_index must be between 1 and 12")
    ELSE IF range_type = "Daily" /\ (U32Lt(range_index, 1) \/ U32Lt(366, range_index))
         THEN Err("For Daily, range_index must be between 1 and 366")
    ELSE OkRangeDate(RangeDate(yr, range_type, range_index))

\* RangeDate::new
range_date_new(yr, range_type, range_index) ==
    IF range_index = 0 THEN Err("range_index must be greater than 0")
    ELSE CASE range_type = "Year" -> OkRangeDate(RangeDate(yr, range_type, range_index))
           [] range_type = "Quarter" ->
                IF U32Lt(range_index, 1) \/ U32Lt(4, range_index)
                THEN Err("For Quarter, range_index must be between 1 and 4")
                ELSE OkRangeDate(RangeDate(yr, range_type, range_index))
           [] range_type = "Month" ->
                IF U32Lt(range_index, 1) \/ U32Lt(12, range_index)
                THEN Err("For Month, range_index must be between 1 and 12")
                ELSE OkRangeDate(RangeDate(yr, range_type, range_index))
           [] range_type = "Daily" ->
                IF U32Lt(range_index, 1) \/ U32Lt(366, range_index)
                THEN Err("For Daily, range_index must be between 1 and 366")
                ELSE IF leap_year(yr)
                THEN IF U32Lt(366, range_index)
                     THEN Err("For Daily in a leap yr, range_index must be between 1 and 366")
                     ELSE OkRangeDate(RangeDate(yr, range_type, range_index))
                ELSE IF U32Lt(365, range_index)
                     THEN Err("For Daily in a non-leap yr, range_index must be between 1 and 365")
                     ELSE OkRangeDate(RangeDate(yr, range_type, range_index))

----------------------------------------------------------------------------
(* chrono::NaiveDate, the calendar-date collaborator, as the crate uses it *)

\* The years NaiveDate can hold (NaiveDate::MIN and NaiveDate::MAX).
DATE_MIN_YEAR == -262143
DATE_MAX_YEAR == 262142

Some(date) == [some |-> TRUE, date |-> date]
None == [some |-> FALSE, date |-> NoDate]

\* The proleptic Gregorian leap years chrono's calendar has.
date_is_leap(y) == (y % 4 = 0 /\ y % 100 # 0) \/ (y % 400 = 0)

days_in_month(y, m) ==
    IF m = 2 THEN (IF date_is_leap(y) THEN 29 ELSE 28)
    ELSE IF m \in {4, 6, 9, 11} THEN 30 ELSE 31

RECURSIVE days_before_month(_, _)
days_before_month(y, m) ==
    IF m <= 1 THEN 0 ELSE days_before_month(y, m - 1) + days_in_month(y, m - 1)

days_in_year(y) == IF date_is_leap(y) THEN 366 ELSE 365

\* NaiveDate::from_ymd_opt
from_ymd_opt(y, m, d) ==
    IF /\ DATE_MIN_YEAR <= y /\ y <= DATE_MAX_YEAR
       /\ 1 <= m /\ m <= 12
       /\ 1 <= d /\ d <= days_in_month(y, m)
    THEN Some(Date(y, m, d))
    ELSE None

\* Datelike::ordinal
ordinal(date) == days_before_month(date.year, date.month) + date.day

\* The month that holds day-of-year o of year y.
month_of_ordinal(y, o) ==
    CHOOSE m \in 1..12 :
        days_before_month(y, m) < o /\ o <= days_before_month(y, m) + days_in_month(y, m)

\* NaiveDate::from_yo_opt
from_yo_opt(y, o) ==
    IF /\ DATE_MIN_YEAR <= y /\ y <= DATE_MAX_YEAR
       /\ 1 <= o /\ o <= days_in_year(y)
    THEN LET m == month_of_ordinal(y, o)
         IN  Some(Date(y, m, o - days_before_month(y, m)))
    ELSE None

\* NaiveDate::checked_add_months: the day is clamped to the target month's length.
checked_add_months(date, n) ==
    LET total == (date.month - 1) + n
        y == date.year + (total \div 12)
        m == (total % 12) + 1
        d == IF date.day <= days_in_month(y, m) THEN date.day ELSE days_in_month(y, m)
    IN  IF y > DATE_MAX_YEAR THEN None ELSE Some(Date(y, m, d))

\* NaiveDate::pred_opt
pred_opt(date) ==
    IF date.day > 1 THEN Some(Date(date.year, date.month, date.day - 1))
    ELSE IF date.month > 1
    THEN Some(Date(date.year, date.month - 1, days_in_month(date.year, date.month - 1)))
    ELSE IF date.year > DATE_MIN_YEAR THEN Some(Date(date.year - 1, 12, 31))
    ELSE None

\* The derived ordering of NaiveDate: chronological.
DateLt(a, b) ==
    \/ a.year < b.year
    \/ a.year = b.year /\ a.month < b.month
    \/ a.year = b.year /\ a.month = b.month /\ a.day < b.day
DateLe(a, b) == a = b \/ DateLt(a, b)

----------------------------------------------------------------------------
(* Date conversion                                                         *)

\* DatePeriod::from_date_as_year
from_date_as_year(date) == year(AsU32(date.year))

\* DatePeriod::from_date_as_quarter
from_date_as_quarter(date) ==
    LET m == date.month
        q == IF m <= 3 THEN 1 ELSE IF m <= 6 THEN 2 ELSE IF m <= 9 THEN 3 ELSE 4
    IN  Period("Quarter", AsU32(date.year), q)

\* DatePeriod::from_date_as_month
from_date_as_month(date) == Period("Month", AsU32(date.year), date.month)

\* DatePeriod::from_date_as_daily
from_date_as_daily(date) == Period("Daily", AsU32(date.year), ordinal(date))

\* DatePeriod::get_year
get_year(p) == p.year

\* from_date_as_<g>, by granularity.
from_date_as(g, date) ==
    CASE g = "Year" -> from_date_as_year(date)
      [] g = "Quarter" -> from_date_as_quarter(date)
      [] g = "Month" -> from_date_as_month(date)
      [] g = "Daily" -> from_date_as_daily(date)

----------------------------------------------------------------------------
(* Boundary dates and containment                                          *)

DateOk(d) == [kind |-> "ok", date |-> d]
DateErr(msg) == [kind |-> "err", date |-> NoDate, err |-> msg]
OfOption(opt, msg) == IF opt.some THEN DateOk(opt.date) ELSE DateErr(msg)

\* DatePeriod::get_first_day
get_first_day(p) ==
    CASE p.tag = "Year" ->
            OfOption(from_ymd_opt(AsI32(p.year), 1, 1), "Invalid year for date creation")
      [] p.tag = "Quarter" ->
            OfOption(from_ymd_opt(AsI32(p.year), (p.idx - 1) * 3 + 1, 1), "Invalid quarter date")
      [] p.tag = "Month" ->
            OfOption(from_ymd_opt(AsI32(p.year), p.idx, 1), "Invalid month date")
      [] p.tag = "Daily" ->
            OfOption(from_yo_opt(AsI32(p.year), p.idx), "Invalid daily date")

\* The Quarter and Month arms of get_last_day: first day, plus n months, minus a day.
last_day_after_months(p, n) ==
    LET first_day == get_first_day(p)
    IN  IF first_day.kind # "ok" THEN first_day
        ELSE LET added_months == checked_add_months(first_day.date, n)
             IN  IF ~added_months.some THEN DateErr("Failed to add months to start date")
                 ELSE OfOption(pred_opt(added_months.date),
                               "Failed to get predecessor date")

\* get_last_day whose Quarter arm adds 2 months, not 3.
get_last_day_short_quarter(p) ==
    CASE p.tag = "Year" ->
            OfOption(from_ymd_opt(AsI32(p.year), 12, 31),
                     "Invalid year for last day calculation")
      [] p.tag = "Quarter" -> last_day_after_months(p, 2)
      [] p.tag = "Month" -> last_day_after_months(p, 1)
      [] p.tag = "Daily" -> get_first_day(p)

\* DatePeriod::get_last_day
get_last_day(p) ==
    CASE p.tag = "Year" ->
            OfOption(from_ymd_opt(AsI32(p.year), 12, 31),
                     "Invalid year for last day calculation")
      [] p.tag = "Quarter" -> last_day_after_months(p, 3)
      [] p.tag = "Month" -> last_day_after_months(p, 1)
      [] p.tag = "Daily" -> get_first_day(p)

\* contains_date that leaves the last day out.
contains_date_open_end(p, date) ==
    LET first == get_first_day(p)
        last_day == get_last_day(p)
    IN  IF first.kind = "ok" /\ last_day.kind = "ok"
        THEN DateLe(first.date, date) /\ DateLt(date, last_day.date)
        ELSE FALSE

\* DatePeriod::contains_date
contains_date(p, date) ==
    LET first == get_first_day(p)
        last_day == get_last_day(p)
    IN  IF first.kind = "ok" /\ last_day.kind = "ok"
        THEN DateLe(first.date, date) /\ DateLe(date, last_day.date)
        ELSE FALSE

----------------------------------------------------------------------------
(* Ordering: #[derive(PartialOrd, Ord)] on the enum                        *)

\* Variants compare by declaration order first.
TagRank(t) ==
    CASE t = "Year" -> 0
      [] t = "Quarter" -> 1
      [] t = "Month" -> 2
      [] t = "Daily" -> 3
      [] OTHER -> 4

\* PeriodLt on the pair (year, index) alone, whatever the variants.
PeriodLt_fields_only(a, b) ==
    \/ U32Lt(a.year, b.year)
    \/ a.year = b.year /\ U32Lt(a.idx, b.idx)

\* a < b: the variant first, then the fields in order, each as u32.
PeriodLt(a, b) ==
    \/ TagRank(a.tag) < TagRank(b.tag)
    \/ /\ a.tag = b.tag
       /\ \/ U32Lt(a.year, b.year)
          \/ a.year = b.year /\ U32Lt(a.idx, b.idx)
PeriodLe(a, b) == a = b \/ PeriodLt(a, b)

----------------------------------------------------------------------------
(* Successor and predecessor                                               *)

\* `year + 1` on u32: a panic in a build with overflow checks, a wrap without.
year_plus_one(t, y) ==
    IF U32AddOverflows(y) /\ overflow_checks
    THEN Panic("attempt to add with overflow")
    ELSE Ok(Period(t, U32AddOne(y), IF t = "Year" THEN 0 ELSE 1))

\* succ_daily with `<=` for `<`: it steps onto day max_days + 1.
succ_daily_off_by_one(p) ==
    IF U32Le(p.idx, max_days(p.year)) THEN Ok(Period("Daily", p.year, p.idx + 1))
    ELSE year_plus_one("Daily", p.year)

\* The Daily arm of succ.
succ_daily(p) ==
    IF U32Lt(p.idx, max_days(p.year)) THEN Ok(Period("Daily", p.year, p.idx + 1))
    ELSE year_plus_one("Daily", p.year)

\* DatePeriod::succ
succ(p) ==
    CASE p.tag = "Year" -> year_plus_one("Year", p.year)
      [] p.tag = "Quarter" ->
            IF U32Lt(p.idx, 4) THEN Ok(Period("Quarter", p.year, p.idx + 1))
            ELSE year_plus_one("Quarter", p.year)
      [] p.tag = "Month" ->
            IF U32Lt(p.idx, 12) THEN Ok(Period("Month", p.year, p.idx + 1))
            ELSE year_plus_one("Month", p.year)
      [] p.tag = "Daily" -> succ_daily(p)

\* pred_daily without the leap-year test on the previous year.
pred_daily_always_365(p) ==
    IF U32Lt(1, p.idx) THEN Ok(Period("Daily", p.year, p.idx - 1))
    ELSE IF U32Lt(0, p.year) THEN Ok(Period("Daily", U32SubOne(p.year), 365))
    ELSE Err("No predecessor for day 1 of year 0")

\* The Daily arm of pred.
pred_daily(p) ==
    IF U32Lt(1, p.idx) THEN Ok(Period("Daily", p.year, p.idx - 1))
    ELSE IF U32Lt(0, p.year)
    THEN LET prev_year == U32SubOne(p.year)
             max_days_prev == IF leap_year(AsI32(prev_year)) THEN 366 ELSE 365
         IN  Ok(Period("Daily", prev_year, max_days_prev))
    ELSE Err("No predecessor for day 1 of year 0")

\* DatePeriod::pred
pred(p) ==
    CASE p.tag = "Year" ->
            IF U32Lt(0, p.year) THEN Ok(Period("Year", U32SubOne(p.year), 0))
            ELSE Err("No predecessor for year 0")
      [] p.tag = "Quarter" ->
            IF U32Lt(1, p.idx) THEN Ok(Period("Quarter", p.year, p.idx - 1))
            ELSE IF U32Lt(0, p.year) THEN Ok(Period("Quarter", U32SubOne(p.year), 4))
            ELSE Err("No predecessor for quarter 1 of year 0")
      [] p.tag = "Month" ->
            IF U32Lt(1, p.idx) THEN Ok(Period("Month", p.year, p.idx - 1))
            ELSE IF U32Lt(0, p.year) THEN Ok(Period("Month", U32SubOne(p.year), 12))
            ELSE Err("No predecessor for month 1 of year 0")
      [] p.tag = "Daily" -> pred_daily(p)

----------------------------------------------------------------------------
(* Decomposition and aggregation                                           *)

\* collect() over a range mapped through a validated constructor whose Err arm
\* is unreachable!(): a panic as soon as one construction fails.
CollectOrPanic(rs) ==
    IF \E i \in DOMAIN rs : rs[i].kind # "ok"
    THEN Panic("internal error: entered unreachable code")
    ELSE OkVec([i \in DOMAIN rs |-> rs[i].val])

\* The Month arm of decompose.
decompose_month(p) ==
    LET first_day == from_ymd_opt(AsI32(p.year), p.idx, 1)
    IN  IF ~first_day.some THEN Panic("internal error: entered unreachable code")
        ELSE LET added == checked_add_months(first_day.date, 1)
             IN  IF ~added.some THEN Panic("NaiveDate + Months out of range")
                 ELSE LET last_day == pred_opt(added.date)
                      IN  IF ~last_day.some THEN Panic("NaiveDate - TimeDelta overflowed")
                          ELSE CollectOrPanic([d \in 1..last_day.date.day |->
                                                  daily(p.year, d)])

\* DatePeriod::decompose
decompose(p) ==
    CASE p.tag = "Year" -> CollectOrPanic([q \in 1..4 |-> quarter(p.year, q)])
      [] p.tag = "Quarter" ->
            LET start_month == (p.idx - 1) * 3 + 1
            IN  CollectOrPanic([i \in 1..3 |-> month(p.year, start_month + (i - 1))])
      [] p.tag = "Month" -> decompose_month(p)
      [] p.tag = "Daily" -> OkVec(<<>>)

\* The Ok arm / unreachable!() arm around a validated constructor.
OkOrUnreachable(r) ==
    IF r.kind = "ok" THEN r ELSE Panic("internal error: entered unreachable code")

\* DatePeriod::aggregate
aggregate(p) ==
    CASE p.tag = "Year" -> Ok(p)
      [] p.tag = "Quarter" -> Ok(year(p.year))
      [] p.tag = "Month" -> OkOrUnreachable(quarter(p.year, ((p.idx - 1) \div 3) + 1))
      [] p.tag = "Daily" ->
            LET date == from_yo_opt(AsI32(p.year), p.idx)
            IN  IF ~date.some THEN Panic("internal error: entered unreachable code")
                ELSE OkOrUnreachable(month(AsU32(date.date.year), date.date.month))

----------------------------------------------------------------------------
(* Text: a String is the sequence of its chars, each a one-char string;    *)
(* a char outside ASCII is written by its code point and takes two bytes   *)

Digits == <<"0", "1", "2", "3", "4", "5", "6", "7", "8", "9">>
DigitChars == {Digits[i] : i \in 1..10}
DigitValue(c) == (CHOOSE i \in 1..10 : Digits[i] = c) - 1

\* The decimal text of a natural number below 2^31.
RECURSIVE NatToString(_)
NatToString(n) ==
    IF n < 10 THEN <<Digits[n + 1]>>
    ELSE Append(NatToString(n \div 10), Digits[(n % 10) + 1])

\* Five decimal digits, zero-padded, of n < 100000.
FiveDigits(n) ==
    << Digits[(n \div 10000) + 1], Digits[((n \div 1000) % 10) + 1],
       Digits[((n \div 100) % 10) + 1], Digits[((n \div 10) % 10) + 1],
       Digits[(n % 10) + 1] >>

\* `{}` of a u32: its decimal text, no padding, no sign.  A held u < 0 stands
\* for u + 4294967296 = (u + 2147483648) + 21474 * 100000 + 83648.
U32ToString(u) ==
    IF u >= 0 THEN NatToString(u)
    ELSE LET t == (u + I32_MAX) + 1
             low == (t % 100000) + 83648
             high == (t \div 100000) + 21474 + (low \div 100000)
         IN  NatToString(high) \o FiveDigits(low % 100000)

\* impl Display for DatePeriod
display(p) ==
    CASE p.tag = "Year" -> U32ToString(p.year) \o <<"Y">>
      [] p.tag = "Quarter" -> U32ToString(p.year) \o <<"Q">> \o U32ToString(p.idx)
      [] p.tag = "Month" -> U32ToString(p.year) \o <<"M">> \o U32ToString(p.idx)
      [] p.tag = "Daily" -> U32ToString(p.year) \o <<"D">> \o U32ToString(p.idx)

\* char::is_whitespace, on the chars the model writes.
Whitespace == {" ", "\t", "\n", "U+00A0"}
\* The chars that take two bytes in UTF-8.
TwoByteChars == {"U+00A0", "U+00E9"}
ByteLen(c) == IF c \in TwoByteChars THEN 2 ELSE 1

\* str::trim
RECURSIVE trim_start(_)
trim_start(s) == IF s # <<>> /\ Head(s) \in Whitespace THEN trim_start(Tail(s)) ELSE s
RECURSIVE trim_end(_)
trim_end(s) ==
    IF s # <<>> /\ s[Len(s)] \in Whitespace THEN trim_end(SubSeq(s, 1, Len(s) - 1)) ELSE s
trim(s) == trim_end(trim_start(s))

\* str::len: the length in bytes.
RECURSIVE byte_len(_)
byte_len(s) == IF s = <<>> THEN 0 ELSE ByteLen(Head(s)) + byte_len(Tail(s))

\* The number of leading chars of s that make up exactly n bytes, or -1 when
\* byte offset n is not a char boundary (slicing there panics).
RECURSIVE chars_at(_, _)
chars_at(s, n) ==
    IF n = 0 THEN 0
    ELSE IF s = <<>> \/ ByteLen(Head(s)) > n THEN -1
    ELSE LET k == chars_at(Tail(s), n - ByteLen(Head(s)))
         IN  IF k < 0 THEN -1 ELSE k + 1

NumOk(v) == [ok |-> TRUE, val |-> v]
NumErr == [ok |-> FALSE, val |-> 0]

RECURSIVE strip_zeros(_)
strip_zeros(ds) == IF ds # <<>> /\ Head(ds) = "0" THEN strip_zeros(Tail(ds)) ELSE ds

\* The value of at most 9 decimal digits.
RECURSIVE digits_value(_)
digits_value(ds) ==
    IF ds = <<>> THEN 0
    ELSE digits_value(SubSeq(ds, 1, Len(ds) - 1)) * 10 + DigitValue(ds[Len(ds)])

\* parse_u32 that takes only the canonical numeral: no leading zero.
parse_u32_canonical(s) ==
    LET ds == IF s # <<>> /\ Head(s) = "+" THEN Tail(s) ELSE s
    IN  IF ds = <<>> \/ \E i \in DOMAIN ds : ds[i] \notin DigitChars THEN NumErr
        ELSE IF Len(ds) > 1 /\ Head(ds) = "0" THEN NumErr
        ELSE IF Len(ds) <= 9 THEN NumOk(digits_value(ds))
        ELSE NumErr

\* str::parse::<u32>: an optional '+', then one or more decimal digits whose
\* value is at most 4294967295.  The result is the held u32.
parse_u32(s) ==
    LET ds == IF s # <<>> /\ Head(s) = "+" THEN Tail(s) ELSE s
        sig == strip_zeros(ds)
        high == digits_value(SubSeq(sig, 1, 5))
        low == digits_value(SubSeq(sig, 6, 10))
    IN  IF ds = <<>> \/ \E i \in DOMAIN ds : ds[i] \notin DigitChars THEN NumErr
        ELSE IF Len(sig) <= 9 THEN NumOk(digits_value(sig))
        ELSE IF Len(sig) > 10 \/ high > 42949 \/ (high = 42949 /\ low > 67295) THEN NumErr
        ELSE IF high < 21474 \/ (high = 21474 /\ low <= 83647)
        THEN NumOk(high * 100000 + low)
        ELSE NumOk(((high - 42948) * 100000) + (low - 167296))

\* The Q / M / D arm of parse.
parse_indexed(s, yr, period_type) ==
    IF byte_len(s) <= 5 THEN Err("Missing index")
    ELSE IF chars_at(s, 5) < 0 THEN Panic("byte index 5 is not a char boundary")
    ELSE LET index == parse_u32(SubSeq(s, chars_at(s, 5) + 1, Len(s)))
         IN  IF ~index.ok THEN Err("Invalid index")
             ELSE CASE period_type = "Q" -> quarter(yr, index.val)
                    [] period_type = "M" -> month(yr, index.val)
                    [] period_type = "D" -> daily(yr, index.val)

\* parse, after the trim and the length check.
parse_trimmed(s) ==
    IF chars_at(s, 4) < 0 THEN Panic("byte index 4 is not a char boundary")
    ELSE LET yr == parse_u32(SubSeq(s, 1, chars_at(s, 4)))
         IN  IF ~yr.ok THEN Err("Invalid year")
             ELSE IF chars_at(s, 5) < 0 THEN Panic("byte index 5 is not a char boundary")
             ELSE LET period_type == s[chars_at(s, 4) + 1]
                  IN  IF period_type = "Y"
                      THEN (IF byte_len(s) # 5 THEN Err("Year format should be YYYYY")
                            ELSE Ok(year(yr.val)))
                      ELSE IF period_type \in {"Q", "M", "D"}
                      THEN parse_indexed(s, yr.val, period_type)
                      ELSE Err("Invalid period type")

\* DatePeriod::parse
parse(input) ==
    LET s == trim(input)
    IN  IF byte_len(s) < 5 THEN Err("Invalid format, expected YYYYT[#]")
        ELSE parse_trimmed(s)

\* impl FromStr for DatePeriod
from_str(s) == parse(s)

----------------------------------------------------------------------------
(* Range enumeration                                                       *)

\* The most loop iterations the model follows; a loop still running after
\* them is reported as Hang.
MaxIter == 60

\* (start_year..=end_year).map(DatePeriod::year).collect(): RangeInclusive
\* yields a, a + 1, ..., b and nothing when a > b.
RECURSIVE year_range(_, _, _, _)
year_range(a, b, result, fuel) ==
    IF U32Lt(b, a) THEN OkVec(result)
    ELSE IF fuel = 0 THEN Hang("still collecting")
    ELSE IF a = b THEN OkVec(Append(result, year(a)))
    ELSE year_range(U32AddOne(a), b, Append(result, year(a)), fuel - 1)

\* while current <= end { result.push(current.clone()); current = current.succ()?; }
RECURSIVE between_loop(_, _, _, _)
between_loop(current, end_period, result, fuel) ==
    IF ~PeriodLe(current, end_period) THEN OkVec(result)
    ELSE IF fuel = 0 THEN Hang("still looping")
    ELSE LET next == succ(current)
         IN  IF next.kind # "ok" THEN next
             ELSE between_loop(next.val, end_period, Append(result, current), fuel - 1)

\* DatePeriod::between_date_as_year
between_date_as_year(start, end) ==
    IF DateLt(end, start) THEN OkVec(<<>>)
    ELSE year_range(AsU32(start.year), AsU32(end.year), <<>>, MaxIter)

\* between_stepping without the `start > end` early return.
between_stepping_unguarded(g, start, end) ==
    between_loop(from_date_as(g, start), from_date_as(g, end), <<>>, MaxIter)

\* DatePeriod::between_date_as_quarter / _month / _daily: the same body, with
\* from_date_as_quarter / _month / _daily.
between_stepping(g, start, end) ==
    IF DateLt(end, start) THEN OkVec(<<>>)
    ELSE between_loop(from_date_as(g, start), from_date_as(g, end), <<>>, MaxIter)

\* between_date_as_<g>, by granularity.
between_date_as(g, start, end) ==
    IF g = "Year" THEN between_date_as_year(start, end)
    ELSE between_stepping(g, start, end)

----------------------------------------------------------------------------
(* The client: a first call makes a value (constructor, parse or date      *)
(* conversion) or enumerates a range; later calls transform the value held *)

\* The most calls in one run.
MaxSteps == 3
\* The most periods an enumerated range may span, so that every loop that
\* ends does so within MaxIter iterations.
MaxSpan == 40

\* How many periods of granularity g lie from date a to date b on the
\* calendar (for Daily an upper estimate across a year boundary).
PeriodsApart(g, a, b) ==
    CASE g = "Year" -> b.year - a.year
      [] g = "Quarter" ->
            4 * (b.year - a.year) + ((b.month - 1) \div 3) - ((a.month - 1) \div 3)
      [] g = "Month" -> 12 * (b.year - a.year) + b.month - a.month
      [] g = "Daily" -> 366 * (b.year - a.year) + ordinal(b) - ordinal(a)

\* Years given to the constructors, as held u32: around 0, the century and
\* 400-year rules, the 4-digit text boundary, the date type's limits, 2^31
\* and u32::MAX.
YearInputs ==
    { 0, 1, 4, 100, 400, 999, 1000, 2023, 2024, 9999, 10000,
      DATE_MAX_YEAR, DATE_MAX_YEAR + 1, I32_MAX, I32_MIN, I32_MIN + 52, -4, U32_MAX }

\* Indices given to the constructors, as held u32.
IndexInputs == { 0, 1, 2, 4, 5, 12, 13, 59, 60, 61, 365, 366, 367, I32_MIN, U32_MAX }

\* Dates given to the date conversions and the range enumerations.
DateInputs ==
    { Date(-1, 12, 30), Date(-1, 12, 31), Date(0, 1, 1), Date(0, 12, 31),
      Date(2023, 12, 31), Date(2024, 1, 1), Date(2024, 2, 28), Date(2024, 2, 29),
      Date(2024, 3, 1), Date(2024, 4, 1), Date(2024, 5, 15), Date(2024, 9, 30),
      Date(2024, 10, 1), Date(2024, 12, 31), Date(2025, 1, 1), Date(2025, 3, 31) }

\* Strings given to parse: the accepted forms (with leading zeros, a sign,
\* surrounding whitespace), one string for each way to be refused, and
\* strings with a two-byte char at each offset parse slices at.  In order:
\*   "2024Y" "2024Q2" "2024M5" "2024M03" "2024D136" "2024D366" "2023D366"
\*   "2024D001" "2024Q004" "0999Y" "0000Q1" "" "   " "202" "24Q1" "2024"
\*   "2024X1" "12345Y" "2024y" "2024Y1" "2024YY" "2024Q" "2024Qx" "2024Q 1"
\*   "2024D1x" "2024Q-1" "2024Q5" "2024Q0" "2024M13" "2024D0"
\*   "2024D4294967296" "2024D4294967295" "20x4Q1" "-202Y" "+202Y" "2024Q+2"
\*   "+2024" " 2024Q2 " "\t2024Y\n" "<U+00A0>2024M12<U+00A0>" "202<U+00E9>1"
\*   "2024<U+00E9>" "2024Q<U+00E9>" "<U+00E9>024Q1" "2024Q1<U+00E9>"
\*   "<U+00E9><U+00E9>" "20<U+00E9>"
ParseInputs ==
    {
      <<"2", "0", "2", "4", "Y">>,
      <<"2", "0", "2", "4", "Q", "2">>,
      <<"2", "0", "2", "4", "M", "5">>,
      <<"2", "0", "2", "4", "M", "0", "3">>,
      <<"2", "0", "2", "4", "D", "1", "3", "6">>,
      <<"2", "0", "2", "4", "D", "3", "6", "6">>,
      <<"2", "0", "2", "3", "D", "3", "6", "6">>,
      <<"2", "0", "2", "4", "D", "0", "0", "1">>,
      <<"2", "0", "2", "4", "Q", "0", "0", "4">>,
      <<"0", "9", "9", "9", "Y">>,
      <<"0", "0", "0", "0", "Q", "1">>,
      <<>>,
      <<" ", " ", " ">>,
      <<"2", "0", "2">>,
      <<"2", "4", "Q", "1">>,
      <<"2", "0", "2", "4">>,
      <<"2", "0", "2", "4", "X", "1">>,
      <<"1", "2", "3", "4", "5", "Y">>,
      <<"2", "0", "2", "4", "y">>,
      <<"2", "0", "2", "4", "Y", "1">>,
      <<"2", "0", "2", "4", "Y", "Y">>,
      <<"2", "0", "2", "4", "Q">>,
      <<"2", "0", "2", "4", "Q", "x">>,
      <<"2", "0", "2", "4", "Q", " ", "1">>,
      <<"2", "0", "2", "4", "D", "1", "x">>,
      <<"2", "0", "2", "4", "Q", "-", "1">>,
      <<"2", "0", "2", "4", "Q", "5">>,
      <<"2", "0", "2", "4", "Q", "0">>,
      <<"2", "0", "2", "4", "M", "1", "3">>,
      <<"2", "0", "2", "4", "D", "0">>,
      <<"2", "0", "2", "4", "D", "4", "2", "9", "4", "9", "6", "7", "2", "9", "6">>,
      <<"2", "0", "2", "4", "D", "4", "2", "9", "4", "9", "6", "7", "2", "9", "5">>,
      <<"2", "0", "x", "4", "Q", "1">>,
      <<"-", "2", "0", "2", "Y">>,
      <<"+", "2", "0", "2", "Y">>,
      <<"2", "0", "2", "4", "Q", "+", "2">>,
      <<"+", "2", "0", "2", "4">>,
      <<" ", "2", "0", "2", "4", "Q", "2", " ">>,
      <<"\t", "2", "0", "2", "4", "Y", "\n">>,
      <<"U+00A0", "2", "0", "2", "4", "M", "1", "2", "U+00A0">>,
      <<"2", "0", "2", "U+00E9", "1">>,
      <<"2", "0", "2", "4", "U+00E9">>,
      <<"2", "0", "2", "4", "Q", "U+00E9">>,
      <<"U+00E9", "0", "2", "4", "Q", "1">>,
      <<"2", "0", "2", "4", "Q", "1", "U+00E9">>,
      <<"U+00E9", "U+00E9">>,
      <<"2", "0", "U+00E9">>
    }

\* Dates a held period is asked about: the days around the ends of 2023,
\* 2024 and of February and June 2024, a day inside a quarter, the last
\* day before year 0 and the last day the date type holds.
ContainsInputs ==
    { Date(-1, 12, 31), Date(2023, 12, 31), Date(2024, 1, 1), Date(2024, 2, 29),
      Date(2024, 3, 1), Date(2024, 5, 15), Date(2024, 12, 31), Date(2025, 1, 1),
      Date(DATE_MAX_YEAR, 12, 31) }

\* Years given to leap_year directly: every year within LeapSpan of 0, on both
\* sides, the years of the documented examples, and the ends of i32.
LeapSpan == 410

LeapInputs == (-LeapSpan..LeapSpan) \cup {1900, 2000, 2023, 2024, 2100, I32_MIN, I32_MAX}

\* Years given to RangeDate::new, as i32.
RangeDateYears == {-4, -1, 0, 1900, 2000, 2023, 2024, I32_MIN, I32_MAX}

\* Years written in variant expressions.
VariantYears == {0, 2023, 2024, U32_MAX}

\* Periods a held period is compared with: every variant in two neighbouring
\* years, and years of 2^31 and more.
OtherPeriods ==
    { Period("Year", 2023, 0), Period("Year", 2024, 0),
      Period("Quarter", 2023, 4), Period("Quarter", 2024, 1),
      Period("Month", 2023, 12), Period("Month", 2024, 1),
      Period("Daily", 2023, 365), Period("Daily", 2024, 1),
      Period("Year", I32_MIN, 0), Period("Month", U32_MAX, 1) }

\* The most leading zeros written before an index.
MaxZeros == 3

\* The text of a 4-digit year, a tag letter and an index written after z
\* zeros, as in "2024M03" and "2024D001".
PaddedText(y, letter, z, n) ==
    U32ToString(y) \o <<letter>> \o [k \in 1..z |-> "0"] \o U32ToString(n)

\* Indexed texts with 0 to MaxZeros leading zeros, given to parse.
PaddedInputs ==
    { PaddedText(y, letter, z, n) :
        y \in {1000, 2023, 2024, 9999}, letter \in {"Q", "M", "D"},
        z \in 0..MaxZeros, n \in {1, 2, 4, 12, 59, 60, 365, 366} }

NoArgs ==
    [p |-> NoPeriod, q |-> NoPeriod, y |-> 0, i |-> 0, s |-> <<>>, g |-> "",
     d1 |-> NoDate, d2 |-> NoDate]

Call(op, args, res) ==
    [op |-> op, p |-> args.p, q |-> args.q, y |-> args.y, i |-> args.i, s |-> args.s, g |-> args.g,
     d1 |-> args.d1, d2 |-> args.d2, res |-> res]

\* A panic or a hang ends the run.
Alive == last.res.kind \in {"ok", "err"}

Init ==
    /\ overflow_checks \in BOOLEAN
    /\ cur = NoPeriod
    /\ text = <<>>
    /\ last = Call("none", NoArgs, Ok(NoPeriod))
    /\ steps = 0

\* A first call that returns a Result<DatePeriod>: the client keeps the value.
Fresh(op, args, res) ==
    /\ steps = 0
    /\ last' = Call(op, args, res)
    /\ cur' = IF res.kind = "ok" THEN res.val ELSE cur
    /\ steps' = steps + 1
    /\ UNCHANGED <<overflow_checks, text>>

NewYear ==
    /\ steps = 0
    /\ \E y \in YearInputs : Fresh("year", [NoArgs EXCEPT !.y = y], Ok(year(y)))

NewQuarter ==
    /\ steps = 0
    /\ \E y \in YearInputs, i \in IndexInputs :
        Fresh("quarter", [NoArgs EXCEPT !.y = y, !.i = i], quarter(y, i))

NewMonth ==
    /\ steps = 0
    /\ \E y \in YearInputs, i \in IndexInputs :
        Fresh("month", [NoArgs EXCEPT !.y = y, !.i = i], month(y, i))

NewDaily ==
    /\ steps = 0
    /\ \E y \in YearInputs, i \in IndexInputs :
        Fresh("daily", [NoArgs EXCEPT !.y = y, !.i = i], daily(y, i))

Parse ==
    /\ steps = 0
    /\ \E s \in ParseInputs \cup PaddedInputs :
            Fresh("parse", [NoArgs EXCEPT !.s = s], parse(s))

FromDate ==
    /\ steps = 0
    /\ \E g \in Tags, d \in DateInputs :
        Fresh("from_date", [NoArgs EXCEPT !.g = g, !.d1 = d], Ok(from_date_as(g, d)))

\* A client expression `DatePeriod::Quarter(y, i)` (or Year, Month, Daily): the
\* variants of a pub enum are public, so the value is built with whatever
\* fields the client writes and no constructor runs. The value is recorded;
\* runs go on from validated values only.
Variant ==
    /\ steps = 0
    /\ \E t \in Tags, y \in VariantYears, i \in IndexInputs :
            /\ last' = Call("variant", [NoArgs EXCEPT !.g = t, !.y = y, !.i = i],
                             Ok(Period(t, y, IF t = "Year" THEN 0 ELSE i)))
            /\ steps' = steps + 1
            /\ UNCHANGED <<overflow_checks, text, cur>>

\* RangeDate::new; the RangeDate is recorded, no DatePeriod value comes of it.
RangeDateNew ==
    /\ steps = 0
    /\ \E y \in RangeDateYears, t \in Tags, i \in IndexInputs :
            /\ last' = Call("RangeDate::new", [NoArgs EXCEPT !.y = y, !.g = t, !.i = i],
                             range_date_new(y, t, i))
            /\ steps' = steps + 1
            /\ UNCHANGED <<overflow_checks, text, cur>>

\* leap_year called on its own; no period comes of it.
LeapYear ==
    /\ steps = 0
    /\ \E y \in LeapInputs :
            Fresh("leap_year", [NoArgs EXCEPT !.y = y], OkBool(leap_year(y)))

Between ==
    /\ steps = 0
    /\ \E g \in Tags, start \in DateInputs, end \in DateInputs :
        /\ PeriodsApart(g, start, end) <= MaxSpan
        /\ PeriodsApart(g, end, start) <= MaxSpan
        /\ Fresh("between", [NoArgs EXCEPT !.g = g, !.d1 = start, !.d2 = end],
                 between_date_as(g, start, end))

\* The calls that only read the value held.  A run is followed up to its
\* first one: the value is as before, so the calls that can follow it are
\* those that could be made in its place.
QueryOps == {"lt", "get_first_day", "get_last_day", "contains_date"}

\* A later call on the value held, with its arguments.
StepWith(op, args, res, next_cur) ==
    /\ steps > 0 /\ steps < MaxSteps
    /\ Alive
    /\ last.op \notin QueryOps
    /\ cur # NoPeriod
    /\ last' = Call(op, args, res)
    /\ cur' = next_cur
    /\ steps' = steps + 1
    /\ UNCHANGED overflow_checks

\* A later call on the value held that takes no other argument.
Step(op, res, next_cur) == StepWith(op, [NoArgs EXCEPT !.p = cur], res, next_cur)

Succ ==
    /\ cur # NoPeriod
    /\ LET r == succ(cur)
       IN  Step("succ", r, IF r.kind = "ok" THEN r.val ELSE cur)
    /\ UNCHANGED text

Pred ==
    /\ cur # NoPeriod
    /\ LET r == pred(cur)
       IN  Step("pred", r, IF r.kind = "ok" THEN r.val ELSE cur)
    /\ UNCHANGED text

Aggregate ==
    /\ cur # NoPeriod
    /\ LET r == aggregate(cur)
       IN  Step("aggregate", r, IF r.kind = "ok" THEN r.val ELSE cur)
    /\ UNCHANGED text

\* decompose, after which the client goes on with any one of the children.
Decompose ==
    /\ cur # NoPeriod
    /\ LET r == decompose(cur)
       IN  \E c \in (IF r.kind = "ok" /\ r.items # <<>>
                     THEN {r.items[k] : k \in DOMAIN r.items} ELSE {cur}) :
               Step("decompose", r, c)
    /\ UNCHANGED text

\* impl Serialize: the value's Display text.
Serialize ==
    /\ cur # NoPeriod
    /\ Step("serialize", Ok(cur), cur)
    /\ text' = display(cur)

\* impl Deserialize: from_str of the text serialize produced.
Deserialize ==
    /\ last.op = "serialize"
    /\ LET r == from_str(text)
       IN  Step("deserialize", r, IF r.kind = "ok" THEN r.val ELSE cur)
    /\ text' = text

\* An anyhow::Result<NaiveDate> as the result of a call.
OfDateResult(r) == IF r.kind = "ok" THEN OkDate(r.date) ELSE Err(r.err)

\* get_first_day on the value held.
FirstDay ==
    /\ cur # NoPeriod
    /\ Step("get_first_day", OfDateResult(get_first_day(cur)), cur)
    /\ UNCHANGED text

\* get_last_day on the value held.
LastDay ==
    /\ cur # NoPeriod
    /\ Step("get_last_day", OfDateResult(get_last_day(cur)), cur)
    /\ UNCHANGED text

\* contains_date on the value held.
Contains ==
    /\ cur # NoPeriod
    /\ \E d \in ContainsInputs :
            StepWith("contains_date", [NoArgs EXCEPT !.p = cur, !.d1 = d],
                     OkBool(contains_date(cur, d)), cur)
    /\ UNCHANGED text

\* `cur < other`, the derived PartialOrd::lt, against another period.
Compare ==
    /\ cur # NoPeriod
    /\ \E other \in OtherPeriods :
            StepWith("lt", [NoArgs EXCEPT !.p = cur, !.q = other],
                     OkBool(PeriodLt(cur, other)), cur)
    /\ UNCHANGED text

Next ==
    \/ NewYear \/ NewQuarter \/ NewMonth \/ NewDaily \/ Parse \/ FromDate \/ Between
    \/ Succ \/ Pred \/ Aggregate \/ Decompose \/ Serialize \/ Deserialize
    \/ Compare \/ FirstDay \/ LastDay \/ Contains \/ LeapYear \/ Variant
    \/ RangeDateNew

Spec == Init /\ [][Next]_vars

----------------------------------------------------------------------------
(* Properties                                                              *)

\* The elements of a sequence.
Items(seq) == {seq[k] : k \in DOMAIN seq}

\* C1: round trip. Deserializing (from_str, that is parse) the text that
\* serialize (Display) wrote for a valid period P succeeds and gives P back.
C1_RoundTrip ==
    (last.op = "deserialize" /\ Valid(last.p)) => last.res = Ok(last.p)

C4_DecomposeAggregateInverse ==
    /\ (last.op = "decompose" /\ Valid(last.p) /\ last.p.tag # "Daily") =>
            /\ last.res.kind = "ok"
            /\ last.res.items # <<>>
            /\ \A c \in Items(last.res.items) : aggregate(c) = Ok(last.p)
    /\ (last.op = "aggregate" /\ last.p.tag = "Year") => last.res = Ok(last.p)

\* C5: succ / pred inverse. For every valid P, P.succ().pred() = P; and for
\* every valid P whose pred() succeeds, P.pred().succ() = P.
C5_SuccPredInverse ==
    /\ (last.op = "succ" /\ Valid(last.p)) =>
            last.res.kind = "ok" /\ pred(last.res.val) = Ok(last.p)
    /\ (last.op = "pred" /\ Valid(last.p) /\ last.res.kind = "ok") =>
            succ(last.res.val) = Ok(last.p)

\* C6: succ returns Year(y+1); Quarter(y, q+1) if q < 4, else Quarter(y+1, 1);
\* Month(y, m+1) if m < 12, else Month(y+1, 1); Daily(y, d+1) if d is below
\* the year's 365 or 366 days, else Daily(y+1, 1).  (When y + 1 is not a u32
\* no returned period has that year.)
C6_SuccValue ==
    (last.op = "succ" /\ Valid(last.p)) =>
        LET p == last.p
            top == CASE p.tag = "Year" -> 0
                     [] p.tag = "Quarter" -> 4
                     [] p.tag = "Month" -> 12
                     [] p.tag = "Daily" -> IF leap_year(AsI32(p.year)) THEN 366 ELSE 365
        IN  IF p.tag # "Year" /\ p.idx < top
            THEN last.res = Ok(Period(p.tag, p.year, p.idx + 1))
            ELSE /\ ~U32AddOverflows(p.year)
                 /\ last.res = Ok(Period(p.tag, U32AddOne(p.year),
                                         IF p.tag = "Year" THEN 0 ELSE 1))

\* C7: succ is total. For every valid period, the largest year included, it
\* returns a period: no error, no abort, no wrapped result.
C7_SuccTotal ==
    (last.op = "succ" /\ Valid(last.p)) =>
        /\ last.res.kind = "ok"
        /\ PeriodLt(last.p, last.res.val)

C9_Between ==
    (last.op = "between" /\ DateLe(last.d1, last.d2)) =>
        LET v == last.res.items
        IN  /\ last.res.kind = "ok"
            /\ v # <<>>
            /\ v[1] = from_date_as(last.g, last.d1)
            /\ v[Len(v)] = from_date_as(last.g, last.d2)
            /\ \A k \in 1..(Len(v) - 1) :
                    /\ succ(v[k]) = Ok(v[k + 1])
                    /\ PeriodLt(v[k], v[k + 1])
            /\ \A k \in 1..Len(v) :
                    /\ get_first_day(v[k]).kind = "ok"
                    /\ get_last_day(v[k]).kind = "ok"
                    /\ DateLe(get_first_day(v[k]).date, last.d2)
                    /\ DateLe(last.d1, get_last_day(v[k]).date)

\* C10: for every granularity, between_date_as_*(start, end) returns Ok with
\* an empty sequence whenever start > end.
C10_BetweenEmpty ==
    (last.op = "between" /\ DateLt(last.d2, last.d1)) => last.res = OkVec(<<>>)

\* C10 witness: start > end with both dates in one quarter, where the loop
\* alone would return that quarter.
C10_Witness ==
    /\ last.op = "between" /\ last.g = "Quarter"
    /\ DateLt(last.d2, last.d1)
    /\ from_date_as_quarter(last.d1) = from_date_as_quarter(last.d2)
    /\ last.res = OkVec(<<>>)

\* C11: canonical text encoding. to_string() of a valid period is the year
\* zero-padded to at least 4 digits, then the tag Y / Q / M / D, then the
\* decimal index without leading zeros; a Year has no index.  This for every
\* year, years below 1000 included.
C11_CanonicalText ==
    (last.op = "serialize" /\ Valid(last.p)) =>
        LET p == last.p
            digits == U32ToString(p.year)
            padded == [k \in 1..(4 - Len(digits)) |-> "0"] \o digits
            letter == CASE p.tag = "Year" -> "Y"
                        [] p.tag = "Quarter" -> "Q"
                        [] p.tag = "Month" -> "M"
                        [] p.tag = "Daily" -> "D"
        IN  text = padded \o <<letter>>
                    \o (IF p.tag = "Year" THEN <<>> ELSE U32ToString(p.idx))

\* C12: parse returns an error for every input that (read as parse reads it,
\* without its leading and trailing whitespace) is shorter than 5 characters;
\* or whose first 4 characters are not a non-negative integer; or whose 5th
\* character is not Y, Q, M or D; or has tag Y and a length other than 5; or
\* has tag Q / M / D and an empty or non-numeric remainder; or has tag
\* Q / M / D and an index the validated constructor refuses.
C12_ParseErrors ==
    last.op = "parse" =>
        LET s == trim(last.s)
            Numeral(f) ==
                LET ds == IF f # <<>> /\ Head(f) = "+" THEN Tail(f) ELSE f
                IN  ds # <<>> /\ \A k \in DOMAIN ds : ds[k] \in DigitChars
            rest == SubSeq(s, 6, Len(s))
            refused ==
                \/ Len(s) < 5
                \/ ~Numeral(SubSeq(s, 1, 4))
                \/ s[5] \notin {"Y", "Q", "M", "D"}
                \/ s[5] = "Y" /\ Len(s) # 5
                \/ s[5] # "Y" /\ ~Numeral(rest)
                \/ s[5] # "Y" /\ ~parse_u32(rest).ok
                \/ s[5] = "Q" /\ quarter(0, parse_u32(rest).val).kind = "err"
                \/ s[5] = "M" /\ month(0, parse_u32(rest).val).kind = "err"
                \/ s[5] = "D" /\ daily(parse_u32(SubSeq(s, 1, 4)).val,
                                       parse_u32(rest).val).kind = "err"
        IN  refused => last.res.kind = "err"

\* C13: parse accepts leading zeros in the index. For every valid Quarter /
\* Month / Daily period with a 4-digit year y, tag T and index n, the text
\* y T n with the index written after any number of zeros parses to that
\* period, the same as the text without the zeros.
C13_LeadingZeros ==
    last.op = "parse" =>
        \A y \in {1000, 2023, 2024, 9999}, letter \in {"Q", "M", "D"},
           z \in 0..MaxZeros, n \in {1, 2, 4, 12, 59, 60, 365, 366} :
            LET tag == CASE letter = "Q" -> "Quarter"
                         [] letter = "M" -> "Month"
                         [] letter = "D" -> "Daily"
            IN  (last.s = PaddedText(y, letter, z, n) /\ Valid(Period(tag, y, n))) =>
                    /\ last.res = Ok(Period(tag, y, n))
                    /\ last.res = parse(PaddedText(y, letter, 0, n))

\* C13 witness: "2024D" followed by MaxZeros zeros and "1" was parsed to
\* Daily(2024, 1).
C13_Witness ==
    /\ last.op = "parse"
    /\ last.s = PaddedText(2024, "D", MaxZeros, 1)
    /\ last.res = Ok(Period("Daily", 2024, 1))
    /\ cur = Period("Daily", 2024, 1)

\* C14: ordering is lexicographic on (year, index). For any two periods A and
\* B, A < B iff A.year < B.year, or the years are equal and A's index is
\* below B's; between two granularities too, the year is compared first.
C14_OrderYearFirst ==
    (last.op = "lt" /\ Valid(last.p) /\ Valid(last.q)) =>
        (last.res.flag <=>
            \/ U32Lt(last.p.year, last.q.year)
            \/ last.p.year = last.q.year /\ U32Lt(last.p.idx, last.q.idx))

\* C14, amended: between two periods of one granularity A < B iff
\* A.year < B.year, or the years are equal and A's index is below B's;
\* between two granularities the granularity alone decides, in the order
\* Year < Quarter < Month < Daily, whatever the years.
C14_OrderVariantFirst ==
    (last.op = "lt" /\ Valid(last.p) /\ Valid(last.q)) =>
        LET order == <<"Year", "Quarter", "Month", "Daily">>
            pos(t) == CHOOSE k \in 1..4 : order[k] = t
        IN  IF last.p.tag = last.q.tag
            THEN last.res.flag <=>
                    \/ U32Lt(last.p.year, last.q.year)
                    \/ last.p.year = last.q.year /\ U32Lt(last.p.idx, last.q.idx)
            ELSE last.res.flag <=> pos(last.p.tag) < pos(last.q.tag)

\* C14 witness: a Quarter was found below a Month of an earlier year, and a
\* period was compared with one of its own granularity.
C14_Witness ==
    /\ last.op = "lt" /\ last.res.flag
    /\ last.p.tag = "Quarter" /\ last.q.tag = "Month"
    /\ U32Lt(last.q.year, last.p.year)
    /\ \E o \in OtherPeriods : o.tag = "Quarter" /\ PeriodLt(o, last.p)

\* C15: date conversion never fails and yields, for every calendar date d,
\* Year(d.year), Quarter(d.year, ceil(d.month / 3)), Month(d.year, d.month)
\* and Daily(d.year, d.day_of_year): the period's year is the number d.year.
C15_DateConversion ==
    last.op = "from_date" =>
        LET d == last.d1
            index == CASE last.g = "Year" -> 0
                       [] last.g = "Quarter" -> (d.month + 2) \div 3
                       [] last.g = "Month" -> d.month
                       [] last.g = "Daily" -> ordinal(d)
        IN  /\ last.res.kind = "ok"
            /\ last.res.val.tag = last.g
            /\ last.res.val.idx = index
            /\ last.res.val.year >= 0 /\ last.res.val.year = d.year

\* C16: boundary dates. For a valid period, get_first_day() is 1 January of
\* year y for Year(y), the 1st of month (q-1)*3+1 for Quarter(y, q), the 1st
\* of month m for Month(y, m) and the date of year y with day-of-year d for
\* Daily(y, d); get_last_day() is 31 December for a Year, the last day of
\* month 3q for a Quarter, the last day of month m for a Month (29 February
\* in a leap year, 28 otherwise) and the first day again for a Daily.
C16_BoundaryDates ==
    (last.op \in {"get_first_day", "get_last_day"} /\ Valid(last.p)) =>
        LET p == last.p
            d == last.res.date
            lastOfMonth(m) ==
                CASE m = 2 -> IF leap_year(p.year) THEN 29 ELSE 28
                  [] m \in {4, 6, 9, 11} -> 30
                  [] OTHER -> 31
            firstMonth == CASE p.tag = "Year" -> 1
                            [] p.tag = "Quarter" -> (p.idx - 1) * 3 + 1
                            [] p.tag = "Month" -> p.idx
                            [] OTHER -> 0
            lastMonth == CASE p.tag = "Year" -> 12
                           [] p.tag = "Quarter" -> 3 * p.idx
                           [] p.tag = "Month" -> p.idx
                           [] OTHER -> 0
        IN  /\ last.res.kind = "ok"
            /\ p.year >= 0 /\ d.year = p.year
            /\ IF p.tag = "Daily" THEN ordinal(d) = p.idx
               ELSE IF last.op = "get_first_day"
               THEN d.month = firstMonth /\ d.day = 1
               ELSE d.month = lastMonth /\ d.day = lastOfMonth(lastMonth)

\* C17: containment. For every valid period P and date d, P.contains_date(d)
\* is true iff P.get_first_day() <= d <= P.get_last_day(), both bounds
\* included, and false for every d when a boundary cannot be computed.
C17_Containment ==
    (last.op = "contains_date" /\ Valid(last.p)) =>
        LET first == get_first_day(last.p)
            last_day == get_last_day(last.p)
        IN  /\ last.res.kind = "ok"
            /\ IF first.kind = "ok" /\ last_day.kind = "ok"
               THEN last.res.flag <=>
                        (DateLe(first.date, last.d1) /\ DateLe(last.d1, last_day.date))
               ELSE ~last.res.flag

\* C17 witness: February 2024 was asked for its last day, 29 February, and
\* contains it.
C17_Witness ==
    /\ last.op = "contains_date"
    /\ last.p = Period("Month", 2024, 2) /\ last.d1 = Date(2024, 2, 29)
    /\ get_last_day(last.p).date = last.d1
    /\ last.res.flag

\* C18: decompose returns the ordered children. For every valid period,
\* decompose gives: for a Year its 4 Quarters 1..4; for Quarter(y, q) the
\* Months 3(q-1)+1 .. 3(q-1)+3 of y; for Month(y, m) the periods Daily(y, d)
\* for d from 1 to the number of days of that month (29 for February of a
\* leap year, 28 otherwise); for a Daily the empty list.
C18_DecomposeChildren ==
    (last.op = "decompose" /\ Valid(last.p)) =>
        LET y == last.p.year
            i == last.p.idx
            r400 == IF y >= 0 THEN y % 400 ELSE ((y % 400) + 296) % 400
            leap == (r400 % 4 = 0 /\ r400 % 100 # 0) \/ r400 = 0
            ndays == CASE i = 2 -> (IF leap THEN 29 ELSE 28)
                       [] i \in {4, 6, 9, 11} -> 30
                       [] OTHER -> 31
            children ==
                CASE last.p.tag = "Year" -> [k \in 1..4 |-> Period("Quarter", y, k)]
                  [] last.p.tag = "Quarter" ->
                        [k \in 1..3 |-> Period("Month", y, 3 * (i - 1) + k)]
                  [] last.p.tag = "Month" -> [d \in 1..ndays |-> Period("Daily", y, d)]
                  [] last.p.tag = "Daily" -> <<>>
        IN  last.res = OkVec(children)

\* C19: aggregate returns the direct parent. For every valid period,
\* aggregate gives: for Year(y) itself; for Quarter(y, q) Year(y); for
\* Month(y, m) Quarter(y, ceil(m / 3)); for Daily(y, d) Month(y, m) with m the
\* calendar month that contains day d of year y, leap years taken into account.
C19_AggregateParent ==
    (last.op = "aggregate" /\ Valid(last.p)) =>
        LET y == last.p.year
            i == last.p.idx
            r400 == IF y >= 0 THEN y % 400 ELSE ((y % 400) + 296) % 400
            leap == (r400 % 4 = 0 /\ r400 % 100 # 0) \/ r400 = 0
            feb == IF leap THEN 29 ELSE 28
            lengths == <<31, feb, 31, 30, 31, 30, 31, 31, 30, 31, 30, 31>>
            before[m \in 1..13] == IF m = 1 THEN 0 ELSE before[m - 1] + lengths[m - 1]
            containing == CHOOSE m \in 1..12 : before[m] < i /\ i <= before[m + 1]
            parent ==
                CASE last.p.tag = "Year" -> Period("Year", y, 0)
                  [] last.p.tag = "Quarter" -> Period("Year", y, 0)
                  [] last.p.tag = "Month" -> Period("Quarter", y, (i + 2) \div 3)
                  [] last.p.tag = "Daily" -> Period("Month", y, containing)
        IN  last.res = Ok(parent)

\* C20: leap_year(y) is true exactly when y is a multiple of 4 and not of
\* 100, or a multiple of 400, for every integer y, 0 and the negative years
\* included; 2024 and 2000 are leap years, 2023 and 1900 are not.
C20_LeapYear ==
    (last.op = "leap_year") =>
        LET y == last.y
            \* y = n * k for the one k it can be; taken from above for y < 0,
            \* so that the product stays within 32 bits
            Multiple(n) == IF y >= 0 THEN n * (y \div n) = y
                           ELSE n * ((y \div n) + 1) = y + n
            multiple4 == Multiple(4)
            multiple100 == Multiple(100)
            multiple400 == Multiple(400)
        IN  /\ last.res.kind = "ok"
            /\ last.res.flag = ((multiple4 /\ ~multiple100) \/ multiple400)
            /\ (y \in {2024, 2000}) => last.res.flag
            /\ (y \in {2023, 1900}) => ~last.res.flag

\* leap_year has answered for a negative century year that is no multiple of
\* 400, and said no.
C20_Witness ==
    /\ last.op = "leap_year"
    /\ last.y = -100
    /\ last.res = OkBool(FALSE)

\* C21: the validated constructors, parse and the date conversions are the
\* only way to a period value: whatever a client of the public interface
\* does, no Quarter, Month or Daily value with an index out of range comes
\* into existence.
C21_OnlyValidatedValues ==
    /\ (last.op # "none" /\ last.res.kind = "ok" /\ last.res.val # NoPeriod)
            => Valid(last.res.val)
    /\ \A c \in Items(last.res.items) : Valid(c)
    /\ cur # NoPeriod => Valid(cur)

C23_ParseNeverAborts ==
    (last.op = "parse") => last.res.kind \in {"ok", "err"}

\* C24: range enumeration always terminates. For every pair of dates the loop
\* of between_date_as_quarter / _month / _daily comes to a period above
\* from_date(end) after finitely many succ() steps and the call returns its
\* list; and every succ() result is strictly above its argument in the
\* derived order.
C24_BetweenTerminates ==
    /\ (last.op = "between" /\ last.g # "Year") => last.res.kind = "ok"
    /\ (last.op = "succ" /\ Valid(last.p)) =>
            /\ last.res.kind = "ok"
            /\ PeriodLt(last.p, last.res.val)

\* C25: for every period made by a validated constructor, whatever year the
\* constructor accepts, get_first_day and get_last_day return Ok: the
\* calendar-overflow error is never reached from a validated value.
C25_BoundariesAlwaysOk ==
    (last.op \in {"get_first_day", "get_last_day"} /\ Valid(last.p)) =>
        last.res.kind = "ok"

\* C26: children tile their parent. For every valid period P that is not a
\* Daily, with children c1..cn = P.decompose(): c1 starts on P's first day, cn
\* ends on P's last day, and each child after the first is the succ() of the
\* one before it, so that the children cover P's dates with no gap and no
\* overlap.
C26_ChildrenTile ==
    (last.op = "decompose" /\ Valid(last.p) /\ last.p.tag # "Daily") =>
        /\ last.res.kind = "ok"
        /\ last.res.items # <<>>
        /\ LET c == last.res.items
               n == Len(c)
           IN  /\ get_first_day(last.p).kind = "ok"
               /\ get_first_day(c[1]) = get_first_day(last.p)
               /\ get_last_day(last.p).kind = "ok"
               /\ get_last_day(c[n]) = get_last_day(last.p)
               /\ \A k \in 1..(n - 1) : succ(c[k]) = Ok(c[k + 1])

\* C27: the periods of one granularity partition the calendar. For every date
\* d and every valid period P of granularity G, P.contains_date(d) is true
\* exactly when P = from_date_as_G(d).
C27_Partition ==
    (last.op = "contains_date" /\ Valid(last.p)) =>
        (last.res.flag <=> (last.p = from_date_as(last.p.tag, last.d1)))

\* C28: consecutive periods are contiguous in time. For every valid period P
\* whose dates are computable (its own first and last day and the first day
\* of its successor), P.succ() starts on the day right after P's last day, and
\* P's first day is not after its last day.
C28_Contiguous ==
    (last.op = "succ" /\ Valid(last.p) /\ last.res.kind = "ok"
        /\ get_first_day(last.p).kind = "ok" /\ get_last_day(last.p).kind = "ok"
        /\ get_first_day(last.res.val).kind = "ok") =>
        LET first == get_first_day(last.p).date
            final == get_last_day(last.p).date
            next == get_first_day(last.res.val).date
        IN  /\ DateLe(first, final)
            /\ DateLt(final, next)
            /\ pred_opt(next) = Some(final)

\* succ has left the last day of a leap year, and the first day of the next
\* year is the day after 31 December.
C28_Witness ==
    /\ last.op = "succ"
    /\ last.p = Period("Daily", 2024, 366)
    /\ last.res = Ok(Period("Daily", 2025, 1))
    /\ get_last_day(last.p).date = Date(2024, 12, 31)
    /\ get_first_day(last.res.val).date = Date(2025, 1, 1)

\* C29: every string parse accepts has, once its leading and trailing
\* whitespace is removed, the shape: exactly 4 decimal digits, then one of
\* Y, Q, M, D, then for Q, M and D one or more decimal digits and nothing
\* else (nothing at all after Y); no sign or other non-digit is accepted in
\* the year or the index.
C29_AcceptedShape ==
    (last.op = "parse" /\ last.res.kind = "ok") =>
        LET s == trim(last.s)
        IN  /\ Len(s) >= 5
            /\ \A k \in 1..4 : s[k] \in DigitChars
            /\ s[5] \in {"Y", "Q", "M", "D"}
            /\ s[5] = "Y" => Len(s) = 5
            /\ s[5] # "Y" => (Len(s) >= 6 /\ \A k \in 6..Len(s) : s[k] \in DigitChars)

\* C30: date conversion keeps the year, for every date the date type holds,
\* dates of a negative (proleptic) year included: get_year() of
\* from_date_as_year(d), _quarter(d), _month(d) and _daily(d) is the year of
\* d, with no wrap-around from the signed-to-unsigned conversion.
\* (A u32 is held as the 32-bit integer of the same bits: a held value below
\* 0 is a year of 2^31 or more, which is no date's year.)
C30_YearPreserved ==
    (last.op = "from_date") =>
        LET y == get_year(last.res.val)
        IN  /\ last.res.kind = "ok"
            /\ ~U32Lt(I32_MAX, y)
            /\ y = last.d1.year

====
